---- MODULE Spec2Model ----
(***************************************************************************)
(* Model of mixxx2rekordbox.py: one run of main() (Spec), and the two pure *)
(* functions get_collections (SpecSel) and build_xml (SpecBuild) applied   *)
(* to inputs drawn from bounded sets.                                      *)
(***************************************************************************)
EXTENDS Integers, Sequences, FiniteSets, TLC

VARIABLES
    pc,             \* position in main(), or stage of a function harness
    args,           \* argparse namespace (command line merged with config)
    mode,           \* table_map key used by get_collections
    conn,           \* "none" | "open" | "closed"
    events,         \* connection and query operations, in the order issued
    db,             \* database content as revealed by the queries
    collections,    \* collection_data: name -> [id, tracks]
    track_ids,      \* all_track_ids
    track_details,  \* track id -> [bpm, cues]
    xml,            \* result of build_xml
    output,         \* the output file: "untouched" (absent or as it was) | "new"
    exit_status,    \* process exit status, -1 while running
    stdout          \* what the run printed

vars == <<pc, args, mode, conn, events, db, collections, track_ids,
          track_details, xml, output, exit_status, stdout>>

\* ---------------------------------------------------------------- bounds
MaxName == 2        \* collection names known to a run: 1..MaxName
MaxRows == 1        \* membership rows in the link table read by a run
MaxColl == 1        \* collections handed to build_xml in SpecBuild
MaxLen == 2         \* membership rows behind those collections
MaxTrack == 3       \* track ids handed to build_xml in SpecBuild

Names == 1..MaxName
RunTracks == 1..MaxRows
BuildNames == 1..MaxColl
BuildTracks == 1..MaxTrack

\* Python None / SQL NULL in a numeric column
Null == -1
\* bpm column values, in thousandths of a beat per minute
BpmValues == {0, 128456}
BpmColumn == BpmValues \cup {Null}

SortChoices == {"asc", "desc"}
NoSort == "none"

\* ---------------------------------------------------------------- helpers
Range(s) == {s[i] : i \in 1..Len(s)}

SeqsUpTo(S, n) == UNION {[1..k -> S] : k \in 0..n}

Reverse(s) == [i \in 1..Len(s) |-> s[Len(s) + 1 - i]]

Min(S) == CHOOSE x \in S : \A y \in S : x <= y

RECURSIVE SortedSeqOfSetDesc(_)
SortedSeqOfSetDesc(S) ==
    IF S = {} THEN <<>>
    ELSE LET m == CHOOSE x \in S : \A y \in S : y <= x
         IN <<m>> \o SortedSeqOfSetDesc(S \ {m})

\* sorted(iterable) over distinct integers
RECURSIVE SortedSeqOfSet(_)
SortedSeqOfSet(S) ==
    IF S = {} THEN <<>>
    ELSE <<Min(S)>> \o SortedSeqOfSet(S \ {Min(S)})

\* one insertion step of a stable ascending sort: x goes after every element
\* whose key is not greater
RECURSIVE InsertStable(_, _, _)
InsertStable(x, s, key) ==
    IF s = <<>> THEN <<x>>
    ELSE IF key[Head(s)] <= key[x] THEN <<Head(s)>> \o InsertStable(x, Tail(s), key)
    ELSE <<x>> \o s

RECURSIVE StableAsc(_, _)
StableAsc(s, key) ==
    IF s = <<>> THEN <<>>
    ELSE InsertStable(s[Len(s)], StableAsc(SubSeq(s, 1, Len(s) - 1), key), key)

\* a descending sort that reverses the ascending result (not stable)
PySortedReversing(s, key, reverse) ==
    IF reverse THEN Reverse(StableAsc(s, key)) ELSE StableAsc(s, key)

\* sorted(list, key=..., reverse=...): list.sort reverses the list, sorts it
\* with the stable ascending sort and reverses the result
PySorted(s, key, reverse) ==
    IF reverse THEN Reverse(StableAsc(Reverse(s), key)) ELSE StableAsc(s, key)

\* ---------------------------------------------------------------- build_xml
TypeError == "TypeError"

\* f"{bpm:.2f}": hundredths, rounded; None has no float format
FormatBpm(bpm) ==
    IF bpm = Null THEN TypeError
    ELSE LET h == (bpm + 5) \div 10
         IN <<h \div 100, h % 100>>

\* the lambda of line 165
BpmKey(td, tid) ==
    IF tid \notin DOMAIN td THEN 0
    ELSE IF td[tid].bpm = Null \/ td[tid].bpm = 0 THEN 0
    ELSE td[tid].bpm

TrackNode(td, tid) ==
    [TrackID |-> tid, AverageBpm |-> FormatBpm(td[tid].bpm),
     marks |-> Len(td[tid].cues)]

\* COLLECTION listed in descending id order
CollectionTracksDesc(td) ==
    LET ids == SortedSeqOfSetDesc(DOMAIN td)
    IN [i \in 1..Len(ids) |-> TrackNode(td, ids[i])]

\* the TRACK children of COLLECTION, lines 136-154
CollectionTracks(td) ==
    LET ids == SortedSeqOfSet(DOMAIN td)
    IN [i \in 1..Len(ids) |-> TrackNode(td, ids[i])]

\* sorts whenever a sort order is given, playlist mode included
NodeTracksAnyMode(tracks, td, is_playlist_mode, sort_order) ==
    IF sort_order # NoSort
    THEN PySorted(tracks, [t \in Range(tracks) |-> BpmKey(td, t)], sort_order = "desc")
    ELSE tracks

\* the TRACK references of one NODE, lines 161-168
NodeTracks(tracks, td, is_playlist_mode, sort_order) ==
    IF ~is_playlist_mode /\ sort_order # NoSort
    THEN PySorted(tracks, [t \in Range(tracks) |-> BpmKey(td, t)], sort_order = "desc")
    ELSE tracks

PlaylistNodes(td, colls, is_playlist_mode, sort_order) ==
    LET names == SortedSeqOfSet(DOMAIN colls)
    IN [i \in 1..Len(names) |->
          [Name |-> names[i], Entries |-> Len(colls[names[i]].tracks),
           keys |-> NodeTracks(colls[names[i]].tracks, td, is_playlist_mode, sort_order)]]

NoXml == [raised |-> FALSE, built |-> FALSE, Entries |-> 0, tracks |-> <<>>,
          Count |-> 0, nodes |-> <<>>]

\* build_xml: the document, or the exception raised while building it
BuildXml(td, colls, is_playlist_mode, sort_order) ==
    IF \E t \in DOMAIN td : FormatBpm(td[t].bpm) = TypeError
    THEN [NoXml EXCEPT !.raised = TRUE]
    ELSE [raised |-> FALSE, built |-> TRUE,
          Entries |-> Cardinality(DOMAIN td),
          tracks |-> CollectionTracks(td),
          Count |-> Cardinality(DOMAIN colls),
          nodes |-> PlaylistNodes(td, colls, is_playlist_mode, sort_order)]

\* ---------------------------------------------------------------- get_collections
Modes == {"crates", "playlists"}

\* row ids of the crates / Playlists table; the name -> id lookup is injective
CollectionId(n) == n + MaxName

LinkRows(names, tracks) == [fk : {CollectionId(n) : n \in names}, track_id : tracks]

\* the names query without the hidden filter
AllDbItemsUnfiltered(m, table) == {n \in DOMAIN table : table[n] # "absent"}

\* SELECT id, name FROM <main_table> [WHERE hidden = 0], lines 54-60
AllDbItems(m, table) ==
    IF m = "playlists" THEN {n \in DOMAIN table : table[n] = "visible"}
    ELSE {n \in DOMAIN table : table[n] # "absent"}

\* final_names, lines 65-70
FinalNames(include, exclude, all) ==
    IF include.given THEN include.names \cap all
    ELSE IF exclude # {} THEN all \ exclude
    ELSE all

\* the track ids appended to one collection, lines 87-90
TracksOf(rows, id) ==
    LET Mine(r) == r.fk = id
        sel == SelectSeq(rows, Mine)
    IN [i \in 1..Len(sel) |-> sel[i].track_id]

NoCollections == [collections |-> <<>>, track_ids |-> {}, queries |-> <<"names">>]

\* get_collections, lines 42-95; queries are the statements it executed
GetCollections(m, include, exclude, table, link, failNames, failTracks) ==
    IF failNames THEN NoCollections
    ELSE LET final == FinalNames(include, exclude, AllDbItems(m, table))
             item_ids == {CollectionId(n) : n \in final}
             Wanted(r) == r.fk \in item_ids
             rows == IF failTracks THEN <<>> ELSE SelectSeq(link, Wanted)
         IN IF final = {} THEN NoCollections
            ELSE [collections |->
                      [n \in final |-> [id |-> CollectionId(n),
                                        tracks |-> TracksOf(rows, CollectionId(n))]],
                  track_ids |-> {rows[i].track_id : i \in 1..Len(rows)},
                  queries |-> <<"names", "members">>]

\* ---------------------------------------------------------------- get_track_details
CueLists == {<<88200>>}

\* get_track_details, lines 97-128; library is what the metadata join returns
GetTrackDetails(ids, library, failMeta, failCues) ==
    IF ids = {} THEN [details |-> <<>>, queries |-> <<>>]
    ELSE IF failMeta THEN [details |-> <<>>, queries |-> <<"metadata">>]
    ELSE IF failCues
         THEN [details |-> [t \in DOMAIN library |-> [library[t] EXCEPT !.cues = <<>>]],
               queries |-> <<"metadata", "cues">>]
    ELSE [details |-> library, queries |-> <<"metadata", "cues">>]

\* ---------------------------------------------------------------- arguments
NoInclude == [given |-> FALSE, names |-> {}]
Includes(names) == {NoInclude} \cup {[given |-> TRUE, names |-> S] : S \in SUBSET names}

\* --sort-by-bpm with its default from the configuration, line 186
SortByBpm(cli, cfg) == IF cli # NoSort THEN cli ELSE cfg
SortSrc(cli, cfg) == IF cli # NoSort THEN "cli" ELSE IF cfg # NoSort THEN "config" ELSE "unset"
CliSorts == SortChoices \cup {NoSort}
CfgSorts == SortChoices \cup {NoSort, "other"}

NoArgs == [mixxx_db_path |-> FALSE, playlists |-> NoInclude, exclude_crates |-> {},
           list_crates |-> FALSE, list_playlists |-> FALSE,
           default_playlists |-> {},
           sort_by_bpm |-> NoSort, sort_src |-> "unset"]

\* default_playlists of the configuration: unset, or a list of names
DefaultPlaylists == {{}, Names}

NoDb == [table |-> [n \in Names |-> "absent"], link |-> <<>>, library |-> <<>>,
         failed |-> {}]
NoStdout == [msg |-> "", names |-> <<>>]

Tables(m) ==
    IF m = "playlists" THEN [Names -> {"absent", "visible", "hidden"}]
    ELSE [Names -> {"absent", "visible"}]

Failed(failA, a, failB, b) ==
    (IF failA THEN {a} ELSE {}) \cup (IF failB THEN {b} ELSE {})

\* ---------------------------------------------------------------- SpecSel
\* get_collections applied to every mode, table, include and exclude argument
InitSel ==
    /\ pc = "sel_call"
    /\ mode \in Modes
    /\ \E inc \in Includes(Names), exc \in SUBSET Names :
          args = [NoArgs EXCEPT !.playlists = inc, !.exclude_crates = exc]
    /\ \E t \in Tables(mode), l \in SeqsUpTo(LinkRows(Names, RunTracks), MaxRows),
          f \in SUBSET {"names", "members"} :
          db = [NoDb EXCEPT !.table = t, !.link = l, !.failed = f]
    /\ conn = "open"
    /\ events = <<>>
    /\ collections = <<>>
    /\ track_ids = {}
    /\ track_details = <<>>
    /\ xml = NoXml
    /\ output = "untouched"
    /\ exit_status = -1
    /\ stdout = NoStdout

SelCall ==
    /\ pc = "sel_call"
    /\ LET r == GetCollections(mode, args.playlists, args.exclude_crates, db.table,
                               db.link, "names" \in db.failed, "members" \in db.failed)
       IN /\ collections' = r.collections
          /\ track_ids' = r.track_ids
          /\ events' = r.queries
    /\ pc' = "sel_ret"
    /\ UNCHANGED <<args, mode, conn, db, track_details, xml, output, exit_status, stdout>>

NextSel == SelCall
SpecSel == InitSel /\ [][NextSel]_vars

\* ---------------------------------------------------------------- SpecBuild
TotalLen(c) ==
    LET names == SortedSeqOfSet(DOMAIN c)
        F[i \in 0..Len(names)] == IF i = 0 THEN 0 ELSE F[i - 1] + Len(c[names[i]].tracks)
    IN F[Len(names)]

CollectionsOver(names, tracks, n) ==
    UNION {{c \in [S -> [id : {0}, tracks : SeqsUpTo(tracks, n)]] : TotalLen(c) <= n}
             : S \in SUBSET names}

WithIds(c) == [n \in DOMAIN c |-> [c[n] EXCEPT !.id = CollectionId(n)]]

TrackDetailsOver(tracks, cues) ==
    UNION {[S -> [bpm : BpmColumn, cues : cues]] : S \in SUBSET tracks}

\* build_xml applied to every metadata mapping, collection set, mode and order
InitBuild ==
    /\ pc = "build_call"
    /\ mode \in Modes
    /\ \E cli \in CliSorts, cfg \in CfgSorts :
          args = [NoArgs EXCEPT !.sort_by_bpm = SortByBpm(cli, cfg),
                                !.sort_src = SortSrc(cli, cfg)]
    /\ \E c \in CollectionsOver(BuildNames, BuildTracks, MaxLen) : collections = WithIds(c)
    /\ track_details \in TrackDetailsOver(BuildTracks, {<<>>})
    /\ track_ids = {}
    /\ db = NoDb
    /\ conn = "closed"
    /\ events = <<>>
    /\ xml = NoXml
    /\ output = "untouched"
    /\ exit_status = -1
    /\ stdout = NoStdout

BuildCall ==
    /\ pc = "build_call"
    /\ xml' = BuildXml(track_details, collections, mode = "playlists", args.sort_by_bpm)
    /\ pc' = "build_ret"
    /\ UNCHANGED <<args, mode, conn, events, db, collections, track_ids, track_details,
                   output, exit_status, stdout>>

NextBuild == BuildCall
SpecBuild == InitBuild /\ [][NextBuild]_vars

\* ---------------------------------------------------------------- main
Init ==
    /\ pc = "start"
    /\ args = NoArgs
    /\ mode = "unset"
    /\ conn = "none"
    /\ events = <<>>
    /\ db = NoDb
    /\ collections = <<>>
    /\ track_ids = {}
    /\ track_details = <<>>
    /\ xml = NoXml
    /\ output = "untouched"
    /\ exit_status = -1
    /\ stdout = NoStdout

Exit(status, msg, names) ==
    /\ pc' = "exit"
    /\ exit_status' = status
    /\ stdout' = [msg |-> msg, names |-> names]

\* lines 173-191: load_config, parse_args and the database path check
ParseArgs ==
    /\ pc = "start"
    /\ \E cliDb \in BOOLEAN, cfgDb \in BOOLEAN, lc \in BOOLEAN, lp \in BOOLEAN,
          pl \in Includes(Names), exc \in SUBSET Names,
          dflt \in DefaultPlaylists, cli \in CliSorts, cfg \in CfgSorts :
          /\ args' = [mixxx_db_path |-> cliDb \/ cfgDb, playlists |-> pl,
                      exclude_crates |-> exc, list_crates |-> lc, list_playlists |-> lp,
                      default_playlists |-> dflt,
                      sort_by_bpm |-> SortByBpm(cli, cfg), sort_src |-> "unset"]
          /\ IF cliDb \/ cfgDb
             THEN pc' = "connect" /\ UNCHANGED <<exit_status, stdout>>
             ELSE Exit(1, "Error: Database path required.", <<>>)
    /\ UNCHANGED <<mode, conn, events, db, collections, track_ids, track_details,
                   xml, output>>

\* a failed connection is reported and the run goes on
ConnectIgnoringFailure ==
    /\ pc = "connect"
    /\ \/ /\ conn' = "open"
          /\ events' = Append(events, "connect")
       \/ /\ conn' = "none"
          /\ events' = Append(events, "connect_failed")
    /\ pc' = "list"
    /\ UNCHANGED <<exit_status, stdout>>
    /\ UNCHANGED <<args, mode, db, collections, track_ids, track_details, xml, output>>

\* lines 193-194 and get_db_connection, lines 13-22
Connect ==
    /\ pc = "connect"
    /\ \/ /\ conn' = "open"
          /\ events' = Append(events, "connect")
          /\ pc' = "list"
          /\ UNCHANGED <<exit_status, stdout>>
       \/ /\ conn' = "none"
          /\ events' = Append(events, "connect_failed")
          /\ Exit(1, "Error connecting to database", <<>>)
    /\ UNCHANGED <<args, mode, db, collections, track_ids, track_details, xml, output>>

\* get_collections called from main: the names query fails or returns the
\* candidate rows; the membership query, when issued, fails or returns the
\* rows of the selected collections
CallGetCollections(m, include, exclude) ==
    \E failNames \in BOOLEAN, failTracks \in BOOLEAN,
       t \in [Names -> {"absent", "visible"}] :
       LET final == FinalNames(include, exclude, AllDbItems(m, t))
       IN /\ failNames => (~failTracks /\ t = NoDb.table)
          /\ (~failNames /\ final = {}) => ~failTracks
          /\ \E l \in SeqsUpTo(LinkRows(final, RunTracks), MaxRows) :
                /\ (failNames \/ failTracks) => l = <<>>
                /\ LET r == GetCollections(m, include, exclude, t, l, failNames, failTracks)
                   IN /\ mode' = m
                      /\ db' = [db EXCEPT !.table = t, !.link = l,
                                          !.failed = Failed(failNames, "names",
                                                            failTracks, "members")]
                      /\ collections' = r.collections
                      /\ track_ids' = r.track_ids
                      /\ events' = events \o r.queries

\* the listing falls through to the export
ListCratesNoExit ==
    /\ pc = "list"
    /\ args.list_crates
    /\ CallGetCollections("crates", NoInclude, {})
    /\ pc' = "loaded"
    /\ stdout' = [msg |-> "Available Crates:", names |-> SortedSeqOfSet(DOMAIN collections')]
    /\ UNCHANGED <<args, conn, track_details, xml, output, exit_status>>

\* lines 196-199
ListCrates ==
    /\ pc = "list"
    /\ args.list_crates
    /\ CallGetCollections("crates", NoInclude, {})
    /\ Exit(0, "Available Crates:", SortedSeqOfSet(DOMAIN collections'))
    /\ UNCHANGED <<args, conn, track_details, xml, output>>

\* lines 201-204
ListPlaylists ==
    /\ pc = "list"
    /\ ~args.list_crates
    /\ args.list_playlists
    /\ CallGetCollections("playlists", NoInclude, {})
    /\ Exit(0, "Available Playlists:", SortedSeqOfSet(DOMAIN collections'))
    /\ UNCHANGED <<args, conn, track_details, xml, output>>

\* lines 206-216: playlist mode
LoadPlaylists ==
    /\ pc = "list"
    /\ ~args.list_crates
    /\ ~args.list_playlists
    /\ args.playlists.given
    /\ LET target_names == IF args.playlists.names # {} THEN args.playlists.names
                           ELSE args.default_playlists
       IN IF target_names = {}
          THEN /\ Exit(1, "Error: No playlists specified via CLI or config.", <<>>)
               /\ UNCHANGED <<mode, db, collections, track_ids, events>>
          ELSE /\ CallGetCollections("playlists",
                                     [given |-> TRUE, names |-> target_names], {})
               /\ pc' = "loaded"
               /\ UNCHANGED <<exit_status, stdout>>
    /\ UNCHANGED <<args, conn, track_details, xml, output>>

\* lines 217-219: crate mode
LoadCrates ==
    /\ pc = "list"
    /\ ~args.list_crates
    /\ ~args.list_playlists
    /\ ~args.playlists.given
    /\ CallGetCollections("crates", NoInclude, args.exclude_crates)
    /\ pc' = "loaded"
    /\ UNCHANGED <<args, conn, track_details, xml, output, exit_status, stdout>>

\* an empty id set treated as an error
NoTracksAsError ==
    /\ pc = "loaded"
    /\ track_ids = {}
    /\ conn' = "closed"
    /\ events' = Append(events, "close")
    /\ Exit(1, "No tracks found.", <<>>)
    /\ UNCHANGED <<args, mode, db, collections, track_ids, track_details, xml, output>>

\* lines 221-224; returning from main ends the process with status 0
NoTracks ==
    /\ pc = "loaded"
    /\ track_ids = {}
    /\ conn' = "closed"
    /\ events' = Append(events, "close")
    /\ Exit(0, "No tracks found.", <<>>)
    /\ UNCHANGED <<args, mode, db, collections, track_ids, track_details, xml, output>>

\* the connection left open until the document is written
LoadMetadataNoClose ==
    /\ pc = "loaded"
    /\ track_ids # {}
    /\ \E library \in TrackDetailsOver(track_ids, CueLists),
          failMeta \in BOOLEAN, failCues \in BOOLEAN :
          LET r == GetTrackDetails(track_ids, library, failMeta, failCues)
          IN /\ ~(failMeta /\ failCues)
             /\ failMeta => library = <<>>
             /\ track_details' = r.details
             /\ db' = [db EXCEPT !.library = library,
                                 !.failed = @ \cup Failed(failMeta, "metadata", failCues, "cues")]
             /\ events' = events \o r.queries
    /\ pc' = "build"
    /\ UNCHANGED <<args, mode, conn, collections, track_ids, xml, output, exit_status, stdout>>

\* lines 226-227: get_track_details, then conn.close()
LoadMetadata ==
    /\ pc = "loaded"
    /\ track_ids # {}
    /\ \E library \in TrackDetailsOver(track_ids, CueLists),
          failMeta \in BOOLEAN, failCues \in BOOLEAN :
          LET r == GetTrackDetails(track_ids, library, failMeta, failCues)
          IN /\ ~(failMeta /\ failCues)
             /\ failMeta => library = <<>>
             /\ track_details' = r.details
             /\ db' = [db EXCEPT !.library = library,
                                 !.failed = @ \cup Failed(failMeta, "metadata", failCues, "cues")]
             /\ events' = events \o r.queries \o <<"close">>
    /\ conn' = "closed"
    /\ pc' = "build"
    /\ UNCHANGED <<args, mode, collections, track_ids, xml, output, exit_status, stdout>>

\* line 229; an exception raised by build_xml ends the process with status 1
Build ==
    /\ pc = "build"
    /\ xml' = BuildXml(track_details, collections, args.playlists.given, args.sort_by_bpm)
    /\ IF xml'.raised
       THEN Exit(1, "Traceback", <<>>)
       ELSE pc' = "write" /\ UNCHANGED <<exit_status, stdout>>
    /\ UNCHANGED <<args, mode, conn, events, db, collections, track_ids, track_details,
                   output>>

\* lines 230-235
WriteOutput ==
    /\ pc = "write"
    /\ output' = "new"
    /\ Exit(0, "Exported", <<>>)
    /\ UNCHANGED <<args, mode, conn, events, db, collections, track_ids, track_details,
                   xml>>

Next ==
    \/ ParseArgs
    \/ Connect
    \/ ListCrates
    \/ ListPlaylists
    \/ LoadPlaylists
    \/ LoadCrates
    \/ NoTracks
    \/ LoadMetadata
    \/ Build
    \/ WriteOutput

Spec == Init /\ [][Next]_vars

\* ================================================================ properties
IsQuery(e) == e \in {"names", "members", "metadata", "cues"}
Issued(e) == \E i \in 1..Len(events) : events[i] = e
StrictlyAscending(s) == \A i \in 1..Len(s) - 1 : s[i] < s[i + 1]

\* the candidates of a mode: every crate, or the playlists that are not hidden
Candidates ==
    IF mode = "playlists" THEN {n \in Names : db.table[n] = "visible"}
    ELSE {n \in Names : db.table[n] \in {"visible", "hidden"}}

\* the name selection policy
SelectedNames(include, exclude) ==
    IF include.given THEN {n \in include.names : n \in Candidates}
    ELSE IF exclude # {} THEN {n \in Candidates : n \notin exclude}
    ELSE Candidates

\* C1: whenever the names query succeeds, get_collections returns a mapping
\* whose names are exactly: the include names found among the mode's candidates
\* when include is given, else the candidates not in exclude, else every
\* candidate; the candidates of playlist mode are the non-hidden playlists.
C1_NameSelection ==
    (pc = "sel_ret" /\ "names" \notin db.failed)
        => DOMAIN collections = SelectedNames(args.playlists, args.exclude_crates)

\* an included name exists only as a hidden playlist and is dropped, while
\* another included name is selected
C1_Witness ==
    /\ pc = "sel_ret"
    /\ "names" \notin db.failed
    /\ mode = "playlists"
    /\ args.playlists.given
    /\ \E h \in args.playlists.names, v \in args.playlists.names :
          /\ db.table[h] = "hidden"
          /\ db.table[v] = "visible"
          /\ DOMAIN collections = {v}

XmlTrackIds == [i \in 1..Len(xml.tracks) |-> xml.tracks[i].TrackID]

\* C2: in every document build_xml returns, the COLLECTION holds exactly one
\* TRACK node per id of the metadata mapping and no other id, in strictly
\* ascending id order, and Entries is the number of records of the mapping.
C2_CollectionSection ==
    (pc = "build_ret" /\ xml.built)
        => /\ Range(XmlTrackIds) = DOMAIN track_details
           /\ Len(XmlTrackIds) = Cardinality(DOMAIN track_details)
           /\ StrictlyAscending(XmlTrackIds)
           /\ xml.Entries = Cardinality(DOMAIN track_details)

\* two records listed, and a collection references an id without a record
C2_Witness ==
    /\ pc = "build_ret"
    /\ xml.built
    /\ XmlTrackIds = <<1, 2>>
    /\ xml.Entries = 2
    /\ \E n \in DOMAIN collections : \E t \in Range(collections[n].tracks) :
          t \notin DOMAIN track_details

\* the bpm a track sorts by: 0 without a record, with a null or with a zero bpm
SortBpm(t) ==
    IF t \notin DOMAIN track_details THEN 0
    ELSE IF track_details[t].bpm \in {Null, 0} THEN 0
    ELSE track_details[t].bpm

WithBpm(s, b) ==
    LET Has(t) == SortBpm(t) = b
    IN SelectSeq(s, Has)

\* s is the stable sort of stored by bpm in the given direction
IsStableSortOf(s, stored, descending) ==
    /\ Len(s) = Len(stored)
    /\ \A i \in 1..Len(s) - 1 :
          IF descending THEN SortBpm(s[i]) >= SortBpm(s[i + 1])
          ELSE SortBpm(s[i]) <= SortBpm(s[i + 1])
    /\ \A b \in {SortBpm(t) : t \in Range(stored) \cup Range(s)} :
          WithBpm(s, b) = WithBpm(stored, b)

\* C3: in crate mode with sort order asc or desc, the TRACK references of every
\* exported NODE are the stable sort of the crate's stored list by bpm
\* (non-decreasing for asc, non-increasing for desc; no record, null and zero
\* bpm sort as 0; equal bpm keep their stored order; nothing dropped or added).
C3_CrateBpmSort ==
    (pc = "build_ret" /\ xml.built /\ mode = "crates"
         /\ args.sort_by_bpm \in SortChoices)
        => \A i \in 1..Len(xml.nodes) :
              IsStableSortOf(xml.nodes[i].keys, collections[xml.nodes[i].Name].tracks,
                             args.sort_by_bpm = "desc")

\* descending order with a tie between a track without a record and a track
\* with bpm 0: the stored order <<2, 1>> is kept
C3_Witness ==
    /\ pc = "build_ret"
    /\ xml.built
    /\ mode = "crates"
    /\ args.sort_by_bpm = "desc"
    /\ 2 \notin DOMAIN track_details
    /\ 1 \in DOMAIN track_details
    /\ track_details[1].bpm = 0
    /\ \E i \in 1..Len(xml.nodes) :
          /\ collections[xml.nodes[i].Name].tracks = <<2, 1>>
          /\ xml.nodes[i].keys = <<2, 1>>

\* C4: in playlist mode, whatever the sort order and its origin and whatever
\* the bpm values, and in crate mode without a sort order, every collection is
\* exported as a NODE whose TRACK references equal its stored track list.
C4_StoredOrderKept ==
    (pc = "build_ret" /\ xml.built /\ (mode = "playlists" \/ args.sort_by_bpm = NoSort))
        => /\ Len(xml.nodes) = Cardinality(DOMAIN collections)
           /\ \A i \in 1..Len(xml.nodes) :
                 /\ xml.nodes[i].Name \in DOMAIN collections
                 /\ xml.nodes[i].keys = collections[xml.nodes[i].Name].tracks

\* playlist mode, ascending order set in the configuration, stored list
\* <<2, 1>> with bpm(2) > bpm(1): exported as stored
C4_Witness ==
    /\ pc = "build_ret"
    /\ xml.built
    /\ mode = "playlists"
    /\ args.sort_by_bpm = "asc"
    /\ args.sort_src = "config"
    /\ DOMAIN track_details = {1, 2}
    /\ track_details[2].bpm > track_details[1].bpm
    /\ \E i \in 1..Len(xml.nodes) :
          /\ collections[xml.nodes[i].Name].tracks = <<2, 1>>
          /\ xml.nodes[i].keys = <<2, 1>>

\* C5: build_xml never raises on a null bpm; the track's node carries
\* AverageBpm 0.00.
C5_NullBpmRendered ==
    pc = "build_ret"
        => /\ ~xml.raised
           /\ \A t \in DOMAIN track_details :
                 track_details[t].bpm = Null
                     => \E i \in 1..Len(xml.tracks) :
                           /\ xml.tracks[i].TrackID = t
                           /\ xml.tracks[i].AverageBpm = <<0, 0>>

NoTrackQuery == ~Issued("members") /\ ~Issued("metadata") /\ ~Issued("cues")

NoDbPathCase ==
    ~args.mixxx_db_path
        => exit_status = 1 /\ events = <<>> /\ output = "untouched"

ConnectFailedCase ==
    Issued("connect_failed")
        => exit_status = 1 /\ NoTrackQuery /\ output = "untouched"

NoPlaylistNames == args.playlists.given /\ args.playlists.names = {}
                       /\ args.default_playlists = {}

\* C6 as stated: a finished run without a database path, with a failed
\* connection, or in playlist mode without any name or configured default,
\* has status 1, issued no track query and left the output file alone.
C6_FatalInputErrors ==
    pc = "exit"
        => /\ NoDbPathCase
           /\ ConnectFailedCase
           /\ NoPlaylistNames
                 => exit_status = 1 /\ NoTrackQuery /\ output = "untouched"

\* C6 amended: the same, the playlist case holding when neither --list-crates
\* nor --list-playlists is given.
C6_FatalInputErrorsUnlessListing ==
    pc = "exit"
        => /\ NoDbPathCase
           /\ ConnectFailedCase
           /\ (NoPlaylistNames /\ ~args.list_crates /\ ~args.list_playlists)
                 => exit_status = 1 /\ NoTrackQuery /\ output = "untouched"

\* the database connected, -p came without names, nothing is configured, no
\* listing was asked for: the run stopped with status 1 before any query
C6_Witness ==
    /\ pc = "exit"
    /\ events = <<"connect">>
    /\ NoPlaylistNames
    /\ ~args.list_crates
    /\ ~args.list_playlists
    /\ exit_status = 1
    /\ output = "untouched"

Listing == args.list_crates \/ args.list_playlists

\* C7: a run with --list-crates or --list-playlists whose connection opened
\* ends with status 0, having printed the names of the listed kind in ascending
\* order, without the metadata queries, the builder or the writer, the output
\* file untouched.
C7_ListAndExit ==
    (pc = "exit" /\ Listing /\ Issued("connect"))
        => /\ exit_status = 0
           /\ mode = (IF args.list_crates THEN "crates" ELSE "playlists")
           /\ stdout.msg = (IF args.list_crates THEN "Available Crates:"
                            ELSE "Available Playlists:")
           /\ Range(stdout.names) = Candidates
           /\ StrictlyAscending(stdout.names)
           /\ ~Issued("metadata") /\ ~Issued("cues")
           /\ track_details = <<>>
           /\ xml = NoXml
           /\ output = "untouched"

\* --list-playlists together with -p without names, -e and --sort-by-bpm: two
\* names printed in order, status 0
C7_Witness ==
    /\ pc = "exit"
    /\ args.list_playlists
    /\ ~args.list_crates
    /\ NoPlaylistNames
    /\ args.exclude_crates # {}
    /\ args.sort_by_bpm = "asc"
    /\ stdout.names = <<1, 2>>
    /\ exit_status = 0
    /\ output = "untouched"

\* the include / exclude arguments main passes to get_collections
MainInclude ==
    IF args.playlists.given
    THEN [given |-> TRUE,
          names |-> IF args.playlists.names # {} THEN args.playlists.names
                    ELSE args.default_playlists]
    ELSE NoInclude
MainExclude == IF args.playlists.given THEN {} ELSE args.exclude_crates

Exported == ~Listing /\ Issued("names")

\* C8: in an export run, an empty selection gives an empty mapping and an
\* empty id set, and a run whose id set is empty ends with "No tracks found."
\* and status 0, without a metadata query and without touching the output.
C8_NoTracksFound ==
    /\ (pc \in {"loaded", "exit"} /\ Exported /\ "names" \notin db.failed
            /\ SelectedNames(MainInclude, MainExclude) = {})
          => collections = <<>> /\ track_ids = {}
    /\ (pc = "exit" /\ Exported /\ track_ids = {})
          => /\ stdout.msg = "No tracks found."
             /\ exit_status = 0
             /\ ~Issued("metadata") /\ ~Issued("cues")
             /\ track_details = <<>>
             /\ output = "untouched"

\* the only included playlist is unknown to the database
C8_Witness ==
    /\ pc = "exit"
    /\ Exported
    /\ "names" \notin db.failed
    /\ args.playlists.names = {2}
    /\ db.table[2] = "absent"
    /\ db.table[1] = "visible"
    /\ collections = <<>>
    /\ stdout.msg = "No tracks found."
    /\ exit_status = 0

Connects == {i \in 1..Len(events) : events[i] = "connect"}

\* C9: at most one connection is opened; every query is issued after it was
\* opened and before it is closed; nothing follows the close; and the builder
\* and the writer run with the connection closed.
C9_ConnectionLifetime ==
    /\ Cardinality(Connects) <= 1
    /\ \A i \in 1..Len(events) :
          /\ IsQuery(events[i])
                => /\ \E j \in 1..(i - 1) : events[j] = "connect"
                   /\ \A j \in 1..(i - 1) : events[j] # "close"
          /\ events[i] = "close" => i = Len(events)
    /\ (pc \in {"build", "write"} \/ xml # NoXml \/ output = "new")
          => conn = "closed" /\ Issued("close")

\* a finished export: all four queries between the connect and the close
C9_Witness ==
    /\ pc = "exit"
    /\ output = "new"
    /\ conn = "closed"
    /\ events = <<"connect", "names", "members", "metadata", "cues", "close">>

NamesFailureCase ==
    ("names" \in db.failed /\ pc \in {"loaded", "exit"})
        => collections = <<>> /\ track_ids = {}

MembersFailureCase ==
    ("members" \in db.failed /\ ~Listing /\ pc = "exit")
        => stdout.msg = "No tracks found." /\ exit_status = 0

CuesFailureRecords ==
    ("cues" \in db.failed /\ pc \in {"build", "write", "exit"})
        => /\ DOMAIN track_details = DOMAIN db.library
           /\ \A t \in DOMAIN track_details : track_details[t].bpm = db.library[t].bpm

\* C10 as stated: a failed names query gives an empty mapping and id set; a
\* failed membership query ends the run in "No tracks found."; after a failed
\* cue query every record is returned and the run writes the output file; no
\* run ends with status 1 at a failed query.
C10_QueryFailureNotFatal ==
    /\ NamesFailureCase
    /\ MembersFailureCase
    /\ CuesFailureRecords
    /\ ("cues" \in db.failed /\ pc = "exit") => output = "new"
    /\ (db.failed # {} /\ pc = "exit" /\ exit_status # 0) => xml.raised

\* the same, the written file asserted only for the runs in which build_xml
\* returned
QueryFailureNotFatalWhenBuilt ==
    /\ NamesFailureCase
    /\ MembersFailureCase
    /\ CuesFailureRecords
    /\ ("cues" \in db.failed /\ pc = "exit" /\ ~xml.raised) => output = "new"
    /\ (db.failed # {} /\ pc = "exit" /\ exit_status # 0) => xml.raised

====
